---- MODULE Spec2Model ----
(***************************************************************************)
(* Model of app.py: the AHP site-suitability scoring model (AHPModel), the *)
(* score classifiers (score_to_text, score_to_color) and the script that   *)
(* drives them (sidebar weight normalisation, scoring, classification).    *)
(*                                                                         *)
(* Numbers.  The program computes with Python floats.  A number is         *)
(* modelled here as an exact rational <<n, d>> in lowest terms with d > 0, *)
(* so sums, products and quotients are the exact ones; the last-bit        *)
(* rounding of IEEE doubles is not modelled.  Division is partial, as in   *)
(* Python: dividing by zero yields the outcome "ZeroDivisionError".        *)
(***************************************************************************)
EXTENDS Integers, Sequences, FiniteSets, TLC

VARIABLES
    main_weights,        \* ahp.main_weights: criterion -> number
    sub_weights_global,  \* ahp.sub_weights_global: criterion -> (sub -> number)
    call,                \* the last AHPModel method call and its arguments
    site_values,         \* the mapping handed to score
    score,               \* what ahp.score(site_values) returned; none when the
                         \* last method call was not score
    rec_text,            \* score_to_text(score)
    text_color,          \* score_to_color(score)
    pc,                  \* position of the script (app.py lines 116-234)
    wT, wE, wS,          \* the sidebar's three raw weights
    total_main           \* the divisor of the sidebar normalisation

vars == <<main_weights, sub_weights_global, call, site_values, score,
          rec_text, text_color, pc, wT, wE, wS, total_main>>

ahp_vars == <<main_weights, sub_weights_global>>
app_vars == <<pc, wT, wE, wS, total_main>>

----------------------------------------------------------------------------
(* Bounds of the model *)

\* main weights handed to set_main_weight and raw sidebar weights are
\* multiples of 1/WGrid
WGrid == 2
\* site values are multiples of 1/VGrid
VGrid == 2
\* scores handed directly to the classifiers are multiples of 1/ScoreGrid
ScoreGrid == 20

----------------------------------------------------------------------------
(* Exact rational arithmetic standing for Python float arithmetic *)

Abs(x) == IF x < 0 THEN -x ELSE x

RECURSIVE GCD(_, _)
GCD(a, b) == IF b = 0 THEN a ELSE GCD(b, a % b)

\* the rational n/d (d # 0) in lowest terms with a positive denominator
Rat(n, d) ==
    LET g == GCD(Abs(n), Abs(d))
        s == IF d < 0 THEN -1 ELSE 1
    IN  <<(s * n) \div g, (s * d) \div g>>

Zero == <<0, 1>>
One  == <<1, 1>>

RAdd(a, b) ==
    LET g == GCD(a[2], b[2])
    IN  Rat(a[1] * (b[2] \div g) + b[1] * (a[2] \div g), (a[2] \div g) * b[2])

RMul(a, b) ==
    LET x == Rat(a[1], b[2])
        y == Rat(b[1], a[2])
    IN  <<x[1] * y[1], x[2] * y[2]>>

\* a / b for b # 0
RQuot(a, b) == RMul(a, Rat(b[2], b[1]))

RLeq(a, b) == a[1] * b[2] <= b[1] * a[2]
RGeq(a, b) == RLeq(b, a)
RLt(a, b)  == ~RLeq(b, a)

\* the outcome of a Python expression: a number or a raised exception
Value(r) == [kind |-> "value", val |-> r]
Raised(e) == [kind |-> e, val |-> Zero]
NoValue == [kind |-> "none", val |-> Zero]

\* Python's a / b on floats: raises ZeroDivisionError when b is zero
Divide(a, b) == IF b = Zero THEN Raised("ZeroDivisionError") ELSE Value(RQuot(a, b))

----------------------------------------------------------------------------
(* AHPModel: the hierarchy and its weight tables *)

criteria == <<"Technical", "Environmental", "Social">>

Criteria == {criteria[i] : i \in 1..Len(criteria)}

sub_criteria ==
    [Technical     |-> <<"Solar Radiation", "Slope", "Proximity to Grid", "Land Cost">>,
     Environmental |-> <<"Land Use", "Distance from Protected Areas", "Water Body Buffer">>,
     Social        |-> <<"Distance from Roads", "Proximity to Demand Centers",
                         "Population Density">>]

SubsOf(crit) == {sub_criteria[crit][i] : i \in 1..Len(sub_criteria[crit])}

Subs == UNION {SubsOf(crit) : crit \in Criteria}

default_main_weights ==
    [Technical |-> Rat(693, 1000), Environmental |-> Rat(187, 1000),
     Social |-> Rat(80, 1000)]

sub_weights_local ==
    [Technical     |-> ("Solar Radiation" :> Rat(558, 1000)) @@ ("Slope" :> Rat(262, 1000))
                       @@ ("Proximity to Grid" :> Rat(130, 1000))
                       @@ ("Land Cost" :> Rat(50, 1000)),
     Environmental |-> ("Land Use" :> Rat(258, 1000))
                       @@ ("Distance from Protected Areas" :> Rat(637, 1000))
                       @@ ("Water Body Buffer" :> Rat(105, 1000)),
     Social        |-> ("Distance from Roads" :> Rat(637, 1000))
                       @@ ("Proximity to Demand Centers" :> Rat(258, 1000))
                       @@ ("Population Density" :> Rat(105, 1000))]

\* _compute_global: criterion weight times local weight, for every
\* sub-criterion of every criterion
compute_global(mw) ==
    [crit \in Criteria |->
        [sub \in DOMAIN sub_weights_local[crit] |->
            RMul(mw[crit], sub_weights_local[crit][sub])]]

\* the (criterion, sub-criterion) pairs in the order score's loops visit them
RECURSIVE PairsFrom(_, _)
PairsFrom(i, j) ==
    IF i > Len(criteria) THEN <<>>
    ELSE IF j > Len(sub_criteria[criteria[i]]) THEN PairsFrom(i + 1, 1)
    ELSE <<(<<criteria[i], sub_criteria[criteria[i]][j]>>)>> \o PairsFrom(i, j + 1)

SubPairs == PairsFrom(1, 1)

\* SiteGet with a missing key read as 1
SiteGetDefaultOne(m, sub) == IF sub \in DOMAIN m THEN m[sub] ELSE One

\* site_values.get(sub, 0), converted by float()
SiteGet(m, sub) == IF sub \in DOMAIN m THEN m[sub] ELSE Zero

\* Accumulate with the local weight in place of the global weight
RECURSIVE AccumulateLocal(_, _, _)
AccumulateLocal(g, m, k) ==
    IF k = 0 THEN Zero
    ELSE RAdd(AccumulateLocal(g, m, k - 1),
              RMul(SiteGet(m, SubPairs[k][2]),
                   sub_weights_local[SubPairs[k][1]][SubPairs[k][2]]))

\* the accumulation loop of score: total += v * global weight
RECURSIVE Accumulate(_, _, _)
Accumulate(g, m, k) ==
    IF k = 0 THEN Zero
    ELSE RAdd(Accumulate(g, m, k - 1),
              RMul(SiteGet(m, SubPairs[k][2]), g[SubPairs[k][1]][SubPairs[k][2]]))

\* sum(...) of every global weight
RECURSIVE SumGlobal(_, _)
SumGlobal(g, k) ==
    IF k = 0 THEN Zero
    ELSE RAdd(SumGlobal(g, k - 1), g[SubPairs[k][1]][SubPairs[k][2]])

\* MaxSum that leaves out the last sub-criterion
MaxSumSkipsLast(g) == SumGlobal(g, Len(SubPairs) - 1)

MaxSum(g) == SumGlobal(g, Len(SubPairs))

\* AHPModel_score that returns total, not divided by max_sum
AHPModel_score_undivided(g, m) == Value(Accumulate(g, m, Len(SubPairs)))

\* AHPModel_score that divides whatever max_sum is
AHPModel_score_unguarded(g, m) == Divide(Accumulate(g, m, Len(SubPairs)), MaxSum(g))

\* AHPModel.score: total / max_sum if max_sum else 0.0
AHPModel_score(g, m) ==
    LET total == Accumulate(g, m, Len(SubPairs))
        max_sum == MaxSum(g)
    IN  IF max_sum # Zero THEN Divide(total, max_sum) ELSE Value(Zero)

----------------------------------------------------------------------------
(* Classification of a score *)

Tenths(k) == Rat(k, 10)

\* score_to_color with the black band open at 0.6
score_to_color_open(s) ==
    IF RGeq(s, Tenths(8)) THEN "green"
    ELSE IF RLt(Tenths(6), s) THEN "black"
    ELSE IF RGeq(s, Tenths(4)) THEN "orange"
    ELSE "red"

score_to_color(s) ==
    IF RGeq(s, Tenths(8)) THEN "green"
    ELSE IF RGeq(s, Tenths(6)) THEN "black"
    ELSE IF RGeq(s, Tenths(4)) THEN "orange"
    ELSE "red"

score_to_text(s) ==
    IF RGeq(s, Tenths(8)) THEN "Highly Suitable"
    ELSE IF RGeq(s, Tenths(6)) THEN "Moderately Suitable"
    ELSE IF RGeq(s, Tenths(4)) THEN "Marginally Suitable"
    ELSE "Not Suitable"

----------------------------------------------------------------------------
(* Inputs *)

\* values handed to set_main_weight: negative, zero and positive numbers
WeightValues == {Rat(k, WGrid) : k \in -1..WGrid}

\* site values, in and out of [0, 1]
InRangeValues == {Rat(k, VGrid) : k \in 0..VGrid}
SiteValues == {Rat(k, VGrid) : k \in -1..(VGrid + 1)}

\* every sub-criterion present: those of the criteria in C at 1, the others
\* at 0
Indicator(C) ==
    [sub \in Subs |-> IF \E crit \in C : sub \in SubsOf(crit) THEN One ELSE Zero]

AllOnes == Indicator(Criteria)
AllZeros == Indicator({})

\* the key sets of the other mappings: no key, every key, the
\* sub-criteria of one criterion, the first sub-criterion of one criterion
KeySets ==
    {{}, Subs} \cup {SubsOf(crit) : crit \in Criteria}
        \cup {{sub_criteria[crit][1]} : crit \in Criteria}

\* the mappings handed to score
SiteValueSets ==
    {Indicator(C) : C \in SUBSET Criteria}
        \cup {[sub \in K |-> v] : K \in KeySets, v \in SiteValues}

----------------------------------------------------------------------------
(* Operations of AHPModel and of the script *)

NoCall == [op |-> "__init__", crit |-> "", value |-> Zero]

\* AHPModel.__init__: the default weights and the global weights derived
\* from them
Construct ==
    /\ main_weights' = default_main_weights
    /\ sub_weights_global' = compute_global(default_main_weights)
    /\ call' = NoCall

\* no score is at hand: the last method call returned None
NoScore ==
    /\ site_values' = <<>>
    /\ score' = NoValue
    /\ rec_text' = ""
    /\ text_color' = ""

\* set_main_weight that divides the three weights by their sum
set_main_weight_renormalizing(crit, value) ==
    LET mw == [main_weights EXCEPT ![crit] = value]
        t == RAdd(RAdd(mw["Technical"], mw["Environmental"]), mw["Social"])
    IN  /\ main_weights' = IF t = Zero THEN mw
                           ELSE [c \in Criteria |-> RQuot(mw[c], t)]
        /\ sub_weights_global' = compute_global(main_weights')
        /\ call' = [op |-> "set_main_weight", crit |-> crit, value |-> value]

\* set_main_weight that leaves the global weights as they were
set_main_weight_stale(crit, value) ==
    /\ main_weights' = [main_weights EXCEPT ![crit] = value]
    /\ sub_weights_global' = sub_weights_global
    /\ call' = [op |-> "set_main_weight", crit |-> crit, value |-> value]

\* AHPModel.set_main_weight(crit, value)
set_main_weight(crit, value) ==
    /\ main_weights' = [main_weights EXCEPT ![crit] = value]
    /\ sub_weights_global' = compute_global(main_weights')
    /\ call' = [op |-> "set_main_weight", crit |-> crit, value |-> value]

\* ComputeScore whose score call stores the global weights divided by
\* their sum
ComputeScoreNormalizing(m) ==
    /\ site_values' = m
    /\ score' = AHPModel_score(sub_weights_global, m)
    /\ call' = [op |-> "score", crit |-> "", value |-> Zero]
    /\ rec_text' = IF score'.kind = "value" THEN score_to_text(score'.val) ELSE ""
    /\ text_color' = IF score'.kind = "value" THEN score_to_color(score'.val) ELSE ""
    /\ main_weights' = main_weights
    /\ sub_weights_global' =
          LET t == MaxSum(sub_weights_global)
          IN  IF t = Zero THEN sub_weights_global
              ELSE [crit \in Criteria |->
                      [sub \in DOMAIN sub_weights_global[crit] |->
                          RQuot(sub_weights_global[crit][sub], t)]]

\* score = ahp.score(site_values); rec_text = score_to_text(score);
\* text_color = score_to_color(score).  An exception raised by score leaves
\* the two classifications unassigned.
ComputeScore(m) ==
    /\ site_values' = m
    /\ score' = AHPModel_score(sub_weights_global, m)
    /\ call' = [op |-> "score", crit |-> "", value |-> Zero]
    /\ rec_text' = IF score'.kind = "value" THEN score_to_text(score'.val) ELSE ""
    /\ text_color' = IF score'.kind = "value" THEN score_to_color(score'.val) ELSE ""
    /\ UNCHANGED ahp_vars

----------------------------------------------------------------------------
(* Spec: an AHPModel used through its methods, in any order, with any     *)
(* arguments                                                              *)

Init ==
    /\ main_weights = default_main_weights
    /\ sub_weights_global = compute_global(default_main_weights)
    /\ call = NoCall
    /\ site_values = <<>>
    /\ score = NoValue
    /\ rec_text = ""
    /\ text_color = ""
    /\ pc = "api"
    /\ wT = Zero /\ wE = Zero /\ wS = Zero
    /\ total_main = Zero

SetMainWeight ==
    /\ pc = "api"
    /\ \E crit \in Criteria, value \in WeightValues : set_main_weight(crit, value)
    /\ NoScore
    /\ UNCHANGED app_vars

Score ==
    /\ pc = "api"
    /\ \E m \in SiteValueSets : ComputeScore(m)
    /\ UNCHANGED app_vars

Next == SetMainWeight \/ Score

Spec == Init /\ [][Next]_vars

----------------------------------------------------------------------------
(* AppSpec: the script, run top to bottom and run again on every          *)
(* interaction                                                            *)

\* a sidebar number_input: any number in [0, 1], the default main weight
\* unless changed
RawWeights(crit) == {Rat(k, WGrid) : k \in 0..WGrid} \cup {default_main_weights[crit]}

\* what get_site_values can return: every sub-criterion present, every
\* value clipped to [0, 1].  The trigonometric formulas are not modelled;
\* any such mapping may come out.
ClippedSiteValues ==
    {m \in SiteValueSets :
        DOMAIN m = Subs /\ \A sub \in Subs : RLeq(Zero, m[sub]) /\ RLeq(m[sub], One)}

AppInit ==
    /\ main_weights = default_main_weights
    /\ sub_weights_global = compute_global(default_main_weights)
    /\ call = NoCall
    /\ site_values = <<>>
    /\ score = NoValue
    /\ rec_text = ""
    /\ text_color = ""
    /\ pc = "sidebar"
    /\ wT = Zero /\ wE = Zero /\ wS = Zero
    /\ total_main = Zero

\* the three number_inputs of the sidebar
ReadWeights ==
    /\ pc = "sidebar"
    /\ wT' \in RawWeights("Technical")
    /\ wE' \in RawWeights("Environmental")
    /\ wS' \in RawWeights("Social")
    /\ pc' = "normalize"
    /\ UNCHANGED <<main_weights, sub_weights_global, call, site_values, score,
                   rec_text, text_color, total_main>>

\* Normalize with the Social weight left out of the total
NormalizeWithoutSocial ==
    /\ pc = "normalize"
    /\ total_main' = LET t == RAdd(wT, wE) IN IF t = Zero THEN One ELSE t
    /\ pc' = "set_Technical"
    /\ UNCHANGED <<main_weights, sub_weights_global, call, site_values, score,
                   rec_text, text_color, wT, wE, wS>>

\* total_main = wT + wE + wS; if total_main == 0: total_main = 1.0
Normalize ==
    /\ pc = "normalize"
    /\ total_main' = LET t == RAdd(RAdd(wT, wE), wS) IN IF t = Zero THEN One ELSE t
    /\ pc' = "set_Technical"
    /\ UNCHANGED <<main_weights, sub_weights_global, call, site_values, score,
                   rec_text, text_color, wT, wE, wS>>

\* ahp.set_main_weight(crit, w/total_main); a raised exception ends the run
SetNormalized(crit, w, next) ==
    /\ pc = "set_" \o crit
    /\ LET q == Divide(w, total_main)
       IN  IF q.kind = "value"
           THEN set_main_weight(crit, q.val) /\ pc' = next
           ELSE pc' = "crashed" /\ UNCHANGED <<main_weights, sub_weights_global, call>>
    /\ UNCHANGED <<site_values, score, rec_text, text_color, wT, wE, wS, total_main>>

SetTechnical == SetNormalized("Technical", wT, "set_Environmental")
SetEnvironmental == SetNormalized("Environmental", wE, "set_Social")
SetSocial == SetNormalized("Social", wS, "location")

\* the script starts over: a new AHPModel, no script variable assigned
Restart ==
    /\ Construct
    /\ NoScore
    /\ wT' = Zero /\ wE' = Zero /\ wS' = Zero
    /\ total_main' = Zero
    /\ pc' = "sidebar"

\* the Random button: new coordinates in the session state, then
\* st.experimental_rerun()
RandomRerun ==
    /\ pc = "location"
    /\ Restart

\* site_values = get_site_values(lat, lon)
Location ==
    /\ pc = "location"
    /\ site_values' \in ClippedSiteValues
    /\ pc' = "compute"
    /\ UNCHANGED <<main_weights, sub_weights_global, call, score, rec_text,
                   text_color, wT, wE, wS, total_main>>

\* score = ahp.score(site_values) and its two classifications
Compute ==
    /\ pc = "compute"
    /\ ComputeScore(site_values)
    /\ pc' = IF score'.kind = "value" THEN "render" ELSE "crashed"
    /\ UNCHANGED <<wT, wE, wS, total_main>>

\* the map, the progress bar and the recommendation: nothing is assigned
Render ==
    /\ pc = "render"
    /\ pc' = "done"
    /\ UNCHANGED <<main_weights, sub_weights_global, call, site_values, score,
                   rec_text, text_color, wT, wE, wS, total_main>>

\* any interaction with a widget runs the script again
Rerun ==
    /\ pc = "done"
    /\ Restart

AppNext ==
    \/ ReadWeights
    \/ Normalize
    \/ SetTechnical
    \/ SetEnvironmental
    \/ SetSocial
    \/ RandomRerun
    \/ Location
    \/ Compute
    \/ Render
    \/ Rerun

AppSpec == AppInit /\ [][AppNext]_vars

----------------------------------------------------------------------------
(* ClassifySpec: the two classifiers applied to any score *)

ScoreInputs == {Rat(k, ScoreGrid) : k \in (-ScoreGrid)..(2 * ScoreGrid)}

ClassifyInit ==
    /\ main_weights = default_main_weights
    /\ sub_weights_global = compute_global(default_main_weights)
    /\ call = NoCall
    /\ site_values = <<>>
    /\ score \in {Value(s) : s \in ScoreInputs}
    /\ rec_text = ""
    /\ text_color = ""
    /\ pc = "classify"
    /\ wT = Zero /\ wE = Zero /\ wS = Zero
    /\ total_main = Zero

\* rec_text = score_to_text(score); text_color = score_to_color(score)
Classify ==
    /\ pc = "classify"
    /\ rec_text' = score_to_text(score.val)
    /\ text_color' = score_to_color(score.val)
    /\ pc' = "classified"
    /\ UNCHANGED <<main_weights, sub_weights_global, call, site_values, score,
                   wT, wE, wS, total_main>>

ClassifyNext == Classify

ClassifySpec == ClassifyInit /\ [][ClassifyNext]_vars

----------------------------------------------------------------------------
(* Properties *)

SumMain ==
    RAdd(RAdd(main_weights["Technical"], main_weights["Environmental"]),
         main_weights["Social"])

RECURSIVE SumLocal(_, _)
SumLocal(crit, k) ==
    IF k = 0 THEN Zero
    ELSE RAdd(SumLocal(crit, k - 1), sub_weights_local[crit][sub_criteria[crit][k]])

LocalsSumToOne == \A crit \in Criteria : SumLocal(crit, Len(sub_criteria[crit])) = One

InUnit(r) == RLeq(Zero, r) /\ RLeq(r, One)

Scored == call.op = "score"

\* C1 (as stated): whenever the three criterion weights sum to 1, each
\* criterion's local weights sum to 1 and every site value lies in [0, 1],
\* score returns a value in [0, 1].
C1_ScoreInUnitInterval_AsStated ==
    (/\ Scored
     /\ SumMain = One
     /\ LocalsSumToOne
     /\ \A sub \in DOMAIN site_values : InUnit(site_values[sub]))
        => (score.kind = "value" /\ InUnit(score.val))

\* C1 (amended): whenever the three criterion weights are each at least 0
\* and sum to 1, each criterion's local weights sum to 1 and every site
\* value lies in [0, 1], score returns a value in [0, 1].
C1_ScoreInUnitInterval ==
    (/\ Scored
     /\ SumMain = One
     /\ \A crit \in Criteria : RLeq(Zero, main_weights[crit])
     /\ LocalsSumToOne
     /\ \A sub \in DOMAIN site_values : InUnit(site_values[sub]))
        => (score.kind = "value" /\ InUnit(score.val))

C1_Witness ==
    /\ Scored
    /\ SumMain = One
    /\ \A crit \in Criteria : RLeq(Zero, main_weights[crit])
    /\ Cardinality({crit \in Criteria : main_weights[crit] # Zero}) >= 2
    /\ LocalsSumToOne
    /\ site_values # <<>>
    /\ \A sub \in DOMAIN site_values : InUnit(site_values[sub])
    /\ score.kind = "value"
    /\ RLt(Zero, score.val) /\ RLt(score.val, One)

\* C2 (as stated): after every call of set_main_weight the three stored
\* main weights sum to 1.
C2_SetterRenormalizes_AsStated ==
    call.op = "set_main_weight" => SumMain = One

\* C2 (amended): set_main_weight(crit, value) stores value as given for
\* crit and leaves the other two main weights as they were; nothing is
\* re-normalized.
C2_SetterStoresValueAsGiven ==
    [][call'.op = "set_main_weight"
          => main_weights' = [main_weights EXCEPT ![call'.crit] = call'.value]]_vars

C2_Witness ==
    /\ call.op = "set_main_weight"
    /\ main_weights[call.crit] = call.value
    /\ \A crit \in Criteria : main_weights[crit] # default_main_weights[crit]
    /\ SumMain # One

\* C3: in every reachable state every sub-criterion's global weight is its
\* criterion's current main weight times its local weight.
C3_GlobalWeightsCurrent ==
    \A crit \in Criteria : \A sub \in SubsOf(crit) :
        sub_weights_global[crit][sub]
            = RMul(main_weights[crit], sub_weights_local[crit][sub])

C3_Witness ==
    /\ call.op = "set_main_weight"
    /\ \A crit \in Criteria :
          /\ main_weights[crit] # default_main_weights[crit]
          /\ main_weights[crit] # Zero
    /\ main_weights["Technical"] # main_weights["Social"]

\* C4: with the sub-criteria of one criterion c at 1 and all others at 0,
\* score returns c's main weight divided by the sum of the three main
\* weights (the sum being other than 0).
C4_IndicatorScoreIsNormalizedWeight ==
    \A c \in Criteria :
        (Scored /\ site_values = Indicator({c}) /\ SumMain # Zero)
            => score = Value(RQuot(main_weights[c], SumMain))

C4_Witness ==
    /\ Scored
    /\ \E c \in Criteria : site_values = Indicator({c}) /\ main_weights[c] # Zero
    /\ \A crit \in Criteria : main_weights[crit] # default_main_weights[crit]
    /\ SumMain # Zero
    /\ SumMain # One
    /\ score.kind = "value"
    /\ score.val # Zero

\* C5: score_to_text gives "Highly Suitable" from 0.8 up, "Moderately
\* Suitable" from 0.6 up to but not including 0.8, "Marginally Suitable"
\* from 0.4 up to but not including 0.6 and "Not Suitable" below 0.4, and
\* score_to_color gives green, black, orange and red on the same four bands.
C5_BandsClosedBelow ==
    pc = "classified" =>
        LET s == score.val
        IN  /\ RGeq(s, Tenths(8))
                => (rec_text = "Highly Suitable" /\ text_color = "green")
            /\ (RGeq(s, Tenths(6)) /\ RLt(s, Tenths(8)))
                => (rec_text = "Moderately Suitable" /\ text_color = "black")
            /\ (RGeq(s, Tenths(4)) /\ RLt(s, Tenths(6)))
                => (rec_text = "Marginally Suitable" /\ text_color = "orange")
            /\ RLt(s, Tenths(4))
                => (rec_text = "Not Suitable" /\ text_color = "red")

C5_Witness ==
    /\ pc = "classified"
    /\ score.val = Tenths(6)
    /\ rec_text = "Moderately Suitable"
    /\ text_color = "black"

\* the mapping m with 0 added for every sub-criterion it lacks
WithZeros(m) == [sub \in Subs |-> IF sub \in DOMAIN m THEN m[sub] ELSE Zero]

\* C6: score of a mapping is score of that mapping with 0 added for every
\* sub-criterion it lacks, and score of the empty mapping is 0.
C6_AbsentIsZero ==
    Scored =>
        /\ score = AHPModel_score(sub_weights_global, WithZeros(site_values))
        /\ site_values = <<>> => score = Value(Zero)

C6_Witness ==
    /\ Scored
    /\ DOMAIN site_values # Subs
    /\ \E sub \in DOMAIN site_values : site_values[sub] # Zero
    /\ MaxSum(sub_weights_global) # Zero
    /\ \A crit \in Criteria : main_weights[crit] # Zero
    /\ score.kind = "value"
    /\ score.val # Zero

\* C7: score returns a number for every weight state and every mapping,
\* and returns 0 whenever the global weights sum to 0.
C7_ScoreNeverFails ==
    Scored =>
        /\ score.kind = "value"
        /\ MaxSum(sub_weights_global) = Zero => score.val = Zero

C7_Witness ==
    /\ Scored
    /\ MaxSum(sub_weights_global) = Zero
    /\ \E crit \in Criteria : RLt(main_weights[crit], Zero)
    /\ Accumulate(sub_weights_global, site_values, Len(SubPairs)) # Zero
    /\ score = Value(Zero)

\* C8: a call of score leaves the main and global weights as they were
\* (the local weights are constants), and a call that repeats the call
\* before it with the same mapping returns the same result.
C8_ScoreHasNoSideEffect ==
    [][call'.op = "score"
          => /\ main_weights' = main_weights
             /\ sub_weights_global' = sub_weights_global
             /\ (call.op = "score" /\ site_values' = site_values) => score' = score]_vars

C8_Witness ==
    /\ Scored
    /\ \A crit \in Criteria : main_weights[crit] # default_main_weights[crit]
    /\ SumMain # One
    /\ SumMain # Zero
    /\ score.kind = "value"
    /\ score.val # Zero

\* C9: with the default weights, score of all ten site values at 1 is 1 and
\* is classified "Highly Suitable", and score of all ten at 0 is 0 and is
\* classified "Not Suitable".
C9_DefaultEndToEnd ==
    (Scored /\ main_weights = default_main_weights) =>
        /\ site_values = AllOnes
              => (score = Value(One) /\ rec_text = "Highly Suitable")
        /\ site_values = AllZeros
              => (score = Value(Zero) /\ rec_text = "Not Suitable")

C9_Witness ==
    /\ Scored
    /\ main_weights = default_main_weights
    /\ SumMain = Rat(96, 100)
    /\ site_values = AllOnes
    /\ score = Value(One)
    /\ rec_text = "Highly Suitable"

RawSum == RAdd(RAdd(wT, wE), wS)

\* C10 (as stated): in the script the stored main weights sum to 1 at the
\* moment score is called, for every choice of the three raw weights.
C10_NormalizedBeforeUse_AsStated ==
    pc = "compute" => SumMain = One

\* C10 (amended): in the script, at the moment score is called, the stored
\* main weights sum to 1 when the three raw weights do not sum to 0; when
\* they do, the three stored main weights are all 0.
C10_NormalizedBeforeUse ==
    pc = "compute" =>
        IF RawSum # Zero THEN SumMain = One
        ELSE \A crit \in Criteria : main_weights[crit] = Zero

C10_Witness ==
    /\ pc = "compute"
    /\ RawSum # Zero
    /\ RawSum # One
    /\ wT # Zero /\ wE # Zero /\ wS # Zero
    /\ main_weights["Technical"] = RQuot(wT, RawSum)
    /\ SumMain = One

====
